---- MODULE Spec2Model ----
(***************************************************************************)
(* Model of copernicus_tides_to_grib.py: one run of main(), which          *)
(* reconciles the provider's manifest with the local holdings              *)
(* (download_files), collates the granules (collate_files), strides the    *)
(* result (reduce_resolution) and appends GRIB messages (write_field).     *)
(*                                                                         *)
(* Paths are sequences of segments.  A raw cell is <<>> (NaN) or <<x>>     *)
(* (x m/s); a converted cell is <<>> (NaN) or the exact rational           *)
(* <<num, den>>.  1.94384 is the rational KnotsNum / KnotsDen.             *)
(***************************************************************************)
EXTENDS Integers, Sequences, FiniteSets, TLC

\* ------------------------------------------------------------------ bounds
\* longest provider listing explored
MaxFiles == 2

\* ------------------------------------------------------- program constants
\* 1.94384 = 12149 / 6250
KnotsNum == 12149
KnotsDen == 6250
\* the source's sampling interval, minutes
NativeMinutes == 15
StepsPerHour == 4
StepsPerDay == 96
\* parameterNumber of the eastward ("ocu") and of the other component
ParamU == 2
ParamV == 3

\* ----------------------------------------------------------- small helpers
Abs(x) == IF x < 0 THEN -x ELSE x

\* int(a / b) of Python for b > 0: the quotient truncated towards zero
TruncDiv(a, b) == IF a >= 0 THEN a \div b ELSE -((-a) \div b)

Range(s) == {s[i] : i \in 1..Len(s)}

Reverse(s) == [i \in 1..Len(s) |-> s[Len(s) + 1 - i]]

RECURSIVE SortAsc(_)
SortAsc(S) ==
    IF S = {} THEN <<>>
    ELSE LET m == CHOOSE x \in S : \A y \in S : x <= y
         IN <<m>> \o SortAsc(S \ {m})

\* position of label x in the coordinate axis s
IndexOf(s, x) == CHOOSE i \in 1..Len(s) : s[i] = x

RECURSIVE Flat(_)
Flat(ss) == IF ss = <<>> THEN <<>> ELSE Head(ss) \o Flat(Tail(ss))

\* a variant that drops the last, incomplete stride
StrideWhole(s, f) ==
    IF Len(s) = 0 THEN <<>>
    ELSE IF f < 0 THEN <<s[1]>>
    ELSE [k \in 1..(Len(s) \div f) |-> s[(k - 1) * f + 1]]

\* seq[slice(0, None, f)] of Python for f # 0; a negative step starting at
\* index 0 yields the first element only
Stride(s, f) ==
    IF Len(s) = 0 THEN <<>>
    ELSE IF f < 0 THEN <<s[1]>>
    ELSE [k \in 1..((Len(s) + f - 1) \div f) |-> s[(k - 1) * f + 1]]

\* equality of two converted cells as numbers
CellEq(a, b) ==
    IF a = <<>> \/ b = <<>> THEN a = b
    ELSE a[1] * b[2] = b[1] * a[2]

\* --------------------------------------------------------------- fixtures
\* The provider's catalogue: the granules a listing can name.  Each holds a
\* short time window on a regular grid; uo / vo are indexed
\* [time][latitude][longitude] in the file's own row order.
GranuleIds == {"gA", "gB", "gC", "gD"}

NaN == <<>>

Granule(g) ==
    CASE g = "gA" ->
           [time |-> <<1, 2>>, latitude |-> <<51, 50>>, longitude |-> <<3, 4>>,
            uo |-> << <<<< <<0>>, <<1>> >>, << <<2>>, NaN >>>>,
                      <<<< <<1>>, <<0>> >>, << <<0>>, <<0>> >>>> >>,
            vo |-> << <<<< <<1>>, <<0>> >>, << NaN, <<0>> >>>>,
                      <<<< <<0>>, <<2>> >>, << <<0>>, <<1>> >>>> >>]
      [] g = "gB" ->
           \* latitude ascending in the file
           [time |-> <<3, 4>>, latitude |-> <<50, 51>>, longitude |-> <<3, 4>>,
            uo |-> << <<<< <<0>>, <<0>> >>, << <<1>>, <<0>> >>>>,
                      <<<< NaN, <<0>> >>, << <<0>>, <<2>> >>>> >>,
            vo |-> << <<<< <<0>>, <<1>> >>, << <<0>>, <<0>> >>>>,
                      <<<< <<0>>, <<0>> >>, << <<1>>, <<0>> >>>> >>]
      [] g = "gC" ->
           \* a window that overlaps gA's and precedes gB's
           [time |-> <<2>>, latitude |-> <<51, 50>>, longitude |-> <<3, 4>>,
            uo |-> << <<<< <<1>>, <<1>> >>, << <<0>>, <<0>> >>>> >>,
            vo |-> << <<<< <<0>>, <<0>> >>, << <<1>>, <<1>> >>>> >>]
      [] g = "gD" ->
           \* another grid: three rows, other longitudes
           [time |-> <<5>>, latitude |-> <<52, 51, 50>>, longitude |-> <<3, 5>>,
            uo |-> << <<<< <<1>>, <<0>> >>, << <<0>>, <<0>> >>,
                        << <<0>>, <<1>> >>>> >>,
            vo |-> << <<<< <<0>>, <<0>> >>, << <<2>>, <<0>> >>,
                        << <<0>>, <<0>> >>>> >>]

\* the provider's storage path of a granule
RemotePath(g) == <<"s3:", "bucket", "native", "NWSHELF", g>>

\* the granule stored under a remote or local path: its last segment
GranuleOf(p) == p[Len(p)]

\* args.output_dir
output_dir == <<"out">>

\* --------------------------------------------------------- download_files
\* item.split("native/")[-1]: what follows the last "native" segment, the
\* whole path when there is none
StripNative(p) ==
    LET hits == {i \in 1..Len(p) : p[i] = "native"}
    IN IF hits = {} THEN p
       ELSE LET last == CHOOSE i \in hits : \A j \in hits : j <= i
            IN SubSeq(p, last + 1, Len(p))

\* os.path.join(args.output_dir, item.split("native/")[-1])
LocalPath(p) == output_dir \o StripNative(p)

\* the listing under skip_existing: the entries whose local file is absent
SkipExisting(listing, files) ==
    SelectSeq(listing, LAMBDA p : LocalPath(p) \notin files)

\* a variant that prompts whatever the list holds
NeedsConfirmAlways(list) == TRUE

\* if downloads_list != []
NeedsConfirm(list) == list # <<>>

\* input(...).strip().lower() over the answers an operator types
Answers == {"yes", " YES ", "Yes", "y", "no", ""}

StripLower(a) ==
    CASE a = " YES " -> "yes"
      [] a = "Yes" -> "yes"
      [] OTHER -> a

\* ---------------------------------------------------------- collate_files
\* ds.fillna(0)
Fillna(c) == IF c = NaN THEN <<0>> ELSE c

\* the field's rows follow the latitude axis: ds.sortby("latitude",
\* ascending=False) when the first latitude is below the last
SortLatitude(ds) ==
    IF ds.latitude[1] < ds.latitude[Len(ds.latitude)]
    THEN LET lat == Reverse(SortAsc(Range(ds.latitude)))
             rows(m) == [i \in 1..Len(lat) |-> m[IndexOf(ds.latitude, lat[i])]]
         IN [ds EXCEPT !.latitude = lat,
                       !.uo = [t \in 1..Len(ds.uo) |-> rows(ds.uo[t])],
                       !.vo = [t \in 1..Len(ds.vo) |-> rows(ds.vo[t])]]
    ELSE ds

\* uo / 1.94384 on a filled cell <<x>>: the exact quotient x * 6250 / 12149
DivideKnots(c) == <<c[1] * KnotsDen, KnotsNum>>

\* uo * 1.94384 on a filled cell <<x>>
TimesKnots(c) == <<c[1] * KnotsNum, KnotsDen>>

ToKnots(c) == DivideKnots(c)

ConvertField(m) ==
    [i \in 1..Len(m) |-> [j \in 1..Len(m[i]) |-> ToKnots(Fillna(m[i][j]))]]

\* the (u_knots, v_knots) pair one loop iteration appends, as two DataArrays
LoadGranule(path) ==
    LET ds == SortLatitude(Granule(GranuleOf(path)))
        arr(f) == [time |-> ds.time, latitude |-> ds.latitude,
                   longitude |-> ds.longitude,
                   values |-> [t \in 1..Len(f) |-> ConvertField(f[t])]]
    IN [u |-> arr(ds.uo), v |-> arr(ds.vo)]

\* one coordinate axis of xr.concat's result (join="outer", the default):
\* the common axis when every array has it, else the sorted union of labels
OuterAxis(axes) ==
    IF \A i \in 1..Len(axes) : axes[i] = axes[1] THEN axes[1]
    ELSE SortAsc(UNION {Range(axes[i]) : i \in 1..Len(axes)})

\* a field reindexed on the joined axes, NaN where the array has no label
Reindex(a, m, lat, lon) ==
    [i \in 1..Len(lat) |-> [j \in 1..Len(lon) |->
        IF lat[i] \in Range(a.latitude) /\ lon[j] \in Range(a.longitude)
        THEN m[IndexOf(a.latitude, lat[i])][IndexOf(a.longitude, lon[j])]
        ELSE NaN]]

\* xr.concat(arrs, dim="time") of a non-empty list: the time axes and the
\* fields are appended in list order; no check of the time labels
Concat(arrs) ==
    LET lat == OuterAxis([i \in 1..Len(arrs) |-> arrs[i].latitude])
        lon == OuterAxis([i \in 1..Len(arrs) |-> arrs[i].longitude])
    IN [time |-> Flat([i \in 1..Len(arrs) |-> arrs[i].time]),
        latitude |-> lat,
        longitude |-> lon,
        values |-> Flat([i \in 1..Len(arrs) |->
                     [t \in 1..Len(arrs[i].values) |->
                        Reindex(arrs[i], arrs[i].values[t], lat, lon)]])]

EmptyArray == [time |-> <<>>, latitude |-> <<>>, longitude |-> <<>>,
               values |-> <<>>]

\* ------------------------------------------------------ reduce_resolution
\* the temporal_resolution strings tried: [:-1] is count, [-1] is unit
Cadences == {[count |-> 15, unit |-> "m"], [count |-> 30, unit |-> "m"],
             [count |-> 20, unit |-> "m"], [count |-> 10, unit |-> "m"],
             [count |-> 1, unit |-> "h"], [count |-> 1, unit |-> "d"],
             [count |-> 15, unit |-> "s"]}

SpatialFactors == {0, 1, 2}

Units == {"m", "h", "d"}

\* int(int(s[:-1]) / 15), int(n * 4), int(n * 96)
TimeReductionFactor(c) ==
    CASE c.unit = "m" -> TruncDiv(c.count, NativeMinutes)
      [] c.unit = "h" -> c.count * StepsPerHour
      [] c.unit = "d" -> c.count * StepsPerDay

\* a.isel(time=slice(0, None, f)), f # 0
IselTime(a, f) ==
    [a EXCEPT !.time = Stride(a.time, f), !.values = Stride(a.values, f)]

\* a.isel(latitude=slice(0, None, f)), f # 0
IselLatitude(a, f) ==
    [a EXCEPT !.latitude = Stride(a.latitude, f),
              !.values = [t \in 1..Len(a.values) |-> Stride(a.values[t], f)]]

\* a.isel(longitude=slice(0, None, f)), f # 0
IselLongitude(a, f) ==
    [a EXCEPT !.longitude = Stride(a.longitude, f),
              !.values = [t \in 1..Len(a.values) |->
                            [i \in 1..Len(a.values[t]) |->
                               Stride(a.values[t][i], f)]]]

Reduce(a, tf, sf) == IselLongitude(IselLatitude(IselTime(a, tf), sf), sf)

\* ------------------------------------------------------------ write_field
NoGeometry == [Ni |-> 0, Nj |-> 0, north_lat |-> 0, south_lat |-> 0,
               west_long |-> 0, east_long |-> 0, di |-> 0, dj |-> 0]

\* main, the geometry read off the reduced eastward array
GeometryOf(a) ==
    [Ni |-> Len(a.longitude), Nj |-> Len(a.latitude),
     north_lat |-> a.latitude[1], south_lat |-> a.latitude[Len(a.latitude)],
     west_long |-> a.longitude[1], east_long |-> a.longitude[Len(a.longitude)],
     di |-> a.longitude[2] - a.longitude[1],
     dj |-> Abs(a.latitude[2] - a.latitude[1])]

\* the message write_field(values, short_name, step) builds
Message(values, short_name, step, g, c) ==
    [Ni |-> g.Ni, Nj |-> g.Nj, north_lat |-> g.north_lat,
     south_lat |-> g.south_lat, west_long |-> g.west_long,
     east_long |-> g.east_long, di |-> g.di, dj |-> g.dj,
     parameterNumber |-> IF short_name = "ocu" THEN ParamU ELSE ParamV,
     stepUnits |-> c.unit, step |-> step * c.count,
     values |-> Flat(values)]

\* what an earlier run left at grib_path
OldMessage == Message(<<>>, "old", 0, NoGeometry, [count |-> 0, unit |-> "m"])

\* ------------------------------------------------------------------ state
VARIABLES
    pc,                      \* where main() stands
    outcome,                 \* "running", "done", "cancelled" or "error"
    raised,                  \* what was raised when outcome = "error"
    args,                    \* the parsed command line
    remote,                  \* the provider's listing for the date regex
    dir_exists,              \* args.output_dir exists
    files,                   \* the granule files on disk, by local path
    to_download_file,        \* tide_forecasts_to_download.txt
    current_file,            \* current_forecast_files.txt
    grib_file,               \* the file at grib_path
    downloads_list,
    current_forecast_list,
    u_current_array,
    v_current_array,
    time_reduction_factor,
    geometry,                \* Ni, Nj, the corners and the increments
    written,                 \* write_field calls completed
    \* what the run has done so far
    listing_calls,           \* copernicusmarine.get(create_file_list=...) calls
    prompts,                 \* input() calls
    fetched,                 \* files the transfer wrote
    collated,                \* collate_files has opened a file list
    grib_removed,            \* os.remove(grib_path) was executed
    deleted,                 \* granule files os.remove'd by the cleanup
    made_dir                 \* os.makedirs(args.output_dir) was executed

vars == <<pc, outcome, raised, args, remote, dir_exists, files,
          to_download_file, current_file, grib_file, downloads_list,
          current_forecast_list, u_current_array, v_current_array,
          time_reduction_factor, geometry, written, listing_calls, prompts,
          fetched, collated, grib_removed, deleted, made_dir>>

Absent == [exists |-> FALSE, lines |-> <<>>]

NoGrib == [exists |-> FALSE, msgs |-> <<>>]

\* the listings a provider can return: at most MaxFiles catalogue entries
Listings ==
    UNION {[1..n -> {RemotePath(g) : g \in GranuleIds}] : n \in 0..MaxFiles}

Init ==
    /\ pc = "main"
    /\ outcome = "running"
    /\ raised = "none"
    /\ args \in [temporal_resolution : Cadences,
                 spatial_resolution_factor : SpatialFactors,
                 keep_forecasts : BOOLEAN]
    /\ remote \in Listings
    /\ dir_exists \in BOOLEAN
    /\ files \in SUBSET {LocalPath(remote[i]) : i \in 1..Len(remote)}
    /\ to_download_file \in {Absent, [exists |-> TRUE, lines |-> <<>>]}
    /\ current_file = to_download_file
    /\ grib_file \in {NoGrib, [exists |-> TRUE, msgs |-> <<OldMessage>>]}
    /\ ~dir_exists =>
          files = {} /\ ~to_download_file.exists /\ ~grib_file.exists
    /\ downloads_list = <<>>
    /\ current_forecast_list = <<>>
    /\ u_current_array = EmptyArray
    /\ v_current_array = EmptyArray
    /\ time_reduction_factor = 0
    /\ geometry = NoGeometry
    /\ written = 0
    /\ listing_calls = 0
    /\ prompts = 0
    /\ fetched = {}
    /\ collated = FALSE
    /\ grib_removed = FALSE
    /\ deleted = {}
    /\ made_dir = FALSE

\* a variant that catches the exception and falls through to the cleanup
RaiseCaught(e) ==
    /\ pc' = "cleanup"
    /\ outcome' = "error"
    /\ raised' = e

\* an uncaught exception ends the run
Raise(e) ==
    /\ pc' = "exit"
    /\ outcome' = "error"
    /\ raised' = e

\* main, up to the call of download_files: the output directory is made
\* when it is missing
MakeOutputDir ==
    /\ pc = "main"
    /\ pc' = "download_files"
    /\ dir_exists' = TRUE
    /\ made_dir' = ~dir_exists
    /\ UNCHANGED <<outcome, raised, args, remote, files, to_download_file,
                   current_file, grib_file, downloads_list,
                   current_forecast_list, u_current_array, v_current_array,
                   time_reduction_factor, geometry, written, listing_calls,
                   prompts, fetched, collated, grib_removed, deleted>>

\* download_files, up to the prompt: the stale list files are removed, the
\* provider is listed twice and the two list files are read back.  A
\* listing call that raises ends the run.
ListFiles ==
    /\ pc = "download_files"
    /\ \E ok \in BOOLEAN :
         IF ok
         THEN /\ to_download_file' =
                    [exists |-> TRUE, lines |-> SkipExisting(remote, files)]
              /\ current_file' = [exists |-> TRUE, lines |-> remote]
              /\ downloads_list' =
                    [i \in 1..Len(to_download_file'.lines) |->
                        StripNative(to_download_file'.lines[i])]
              /\ current_forecast_list' =
                    [i \in 1..Len(remote) |-> LocalPath(remote[i])]
              /\ listing_calls' = 2
              /\ pc' = IF NeedsConfirm(downloads_list')
                       THEN "confirm" ELSE "fetch"
              /\ UNCHANGED <<outcome, raised>>
         ELSE /\ to_download_file' = Absent
              /\ current_file' = Absent
              /\ listing_calls' = 1
              /\ Raise("listing_failed")
              /\ UNCHANGED <<downloads_list, current_forecast_list>>
    /\ UNCHANGED <<args, remote, dir_exists, files, grib_file,
                   u_current_array, v_current_array, time_reduction_factor,
                   geometry, written, prompts, fetched, collated,
                   grib_removed, deleted, made_dir>>

\* download_files, the prompt: anything but "yes" after strip().lower()
\* prints "Download cancelled." and exits
Confirm ==
    /\ pc = "confirm"
    /\ prompts' = prompts + 1
    /\ \E a \in Answers :
         IF StripLower(a) # "yes"
         THEN /\ pc' = "exit"
              /\ outcome' = "cancelled"
         ELSE /\ pc' = "fetch"
              /\ UNCHANGED outcome
    /\ UNCHANGED <<raised, args, remote, dir_exists, files, to_download_file,
                   current_file, grib_file, downloads_list,
                   current_forecast_list, u_current_array, v_current_array,
                   time_reduction_factor, geometry, written, listing_calls,
                   fetched, collated, grib_removed, deleted, made_dir>>

\* download_files, the transfer of the listed files that are not on disk;
\* a transfer that raises has written only some of them
Fetch ==
    /\ pc = "fetch"
    /\ LET missing == {LocalPath(current_file.lines[i]) :
                          i \in 1..Len(current_file.lines)} \ files
       IN \E got \in SUBSET missing :
            /\ fetched' = got
            /\ files' = files \cup got
            /\ IF got = missing
               THEN pc' = "collate_files" /\ UNCHANGED <<outcome, raised>>
               ELSE Raise("fetch_failed")
    /\ UNCHANGED <<args, remote, dir_exists, to_download_file, current_file,
                   grib_file, downloads_list, current_forecast_list,
                   u_current_array, v_current_array, time_reduction_factor,
                   geometry, written, listing_calls, prompts, collated,
                   grib_removed, deleted, made_dir>>

\* collate_files: every listed file is opened, filled, row-sorted and
\* converted, then the two lists are concatenated along time.  A file that
\* is not on disk and an empty list make xarray raise.
CollateFiles ==
    /\ pc = "collate_files"
    /\ collated' = TRUE
    /\ IF \E i \in 1..Len(current_forecast_list) :
             current_forecast_list[i] \notin files
       THEN /\ Raise("file_not_found")
            /\ UNCHANGED <<u_current_array, v_current_array>>
       ELSE IF current_forecast_list = <<>>
       THEN /\ Raise("concat_empty")
            /\ UNCHANGED <<u_current_array, v_current_array>>
       ELSE LET loaded == [i \in 1..Len(current_forecast_list) |->
                             LoadGranule(current_forecast_list[i])]
            IN /\ u_current_array' =
                     Concat([i \in 1..Len(loaded) |-> loaded[i].u])
               /\ v_current_array' =
                     Concat([i \in 1..Len(loaded) |-> loaded[i].v])
               /\ pc' = "reduce_resolution"
               /\ UNCHANGED <<outcome, raised>>
    /\ UNCHANGED <<args, remote, dir_exists, files, to_download_file,
                   current_file, grib_file, downloads_list,
                   current_forecast_list, time_reduction_factor, geometry,
                   written, listing_calls, prompts, fetched, grib_removed,
                   deleted, made_dir>>

\* reduce_resolution: the unit suffix selects the factor, any other suffix
\* raises ValueError; a slice step of zero makes isel raise
ReduceResolution ==
    /\ pc = "reduce_resolution"
    /\ LET c == args.temporal_resolution
           sf == args.spatial_resolution_factor
       IN IF c.unit \notin Units
          THEN /\ Raise("invalid_temporal_resolution")
               /\ UNCHANGED <<u_current_array, v_current_array,
                              time_reduction_factor>>
          ELSE /\ time_reduction_factor' = TimeReductionFactor(c)
               /\ IF time_reduction_factor' = 0 \/ sf = 0
                  THEN /\ Raise("slice_step_zero")
                       /\ UNCHANGED <<u_current_array, v_current_array>>
                  ELSE /\ u_current_array' =
                             Reduce(u_current_array, time_reduction_factor', sf)
                       /\ v_current_array' =
                             Reduce(v_current_array, time_reduction_factor', sf)
                       /\ pc' = "grib_path"
                       /\ UNCHANGED <<outcome, raised>>
    /\ UNCHANGED <<args, remote, dir_exists, files, to_download_file,
                   current_file, grib_file, downloads_list,
                   current_forecast_list, geometry, written, listing_calls,
                   prompts, fetched, collated, grib_removed, deleted, made_dir>>

\* main, between reduce_resolution and the write loop: the geometry is read
\* off the eastward array (index 1 of an axis shorter than two raises
\* IndexError), then the file at grib_path is removed when it exists
RemoveGrib ==
    /\ pc = "grib_path"
    /\ IF Len(u_current_array.latitude) < 2 \/ Len(u_current_array.longitude) < 2
       THEN /\ Raise("index_error")
            /\ UNCHANGED <<geometry, grib_file, grib_removed, written>>
       ELSE /\ geometry' = GeometryOf(u_current_array)
            /\ grib_file' = NoGrib
            /\ grib_removed' = grib_file.exists
            /\ written' = 0
            /\ pc' = IF Len(u_current_array.time) > 0
                     THEN "write_field" ELSE "cleanup"
            /\ UNCHANGED <<outcome, raised>>
    /\ UNCHANGED <<args, remote, dir_exists, files, to_download_file,
                   current_file, downloads_list, current_forecast_list,
                   u_current_array, v_current_array, time_reduction_factor,
                   listing_calls, prompts, fetched, collated, deleted, made_dir>>

\* a variant that writes the northward field first
NextMessageSwapped(k) ==
    LET idx == k \div 2
    IN IF k % 2 = 0
       THEN Message(v_current_array.values[idx + 1], "ocv", idx, geometry,
                    args.temporal_resolution)
       ELSE Message(u_current_array.values[idx + 1], "ocu", idx, geometry,
                    args.temporal_resolution)

\* the message the next write_field call appends: call number k (from 0)
\* is the eastward field of time index k \div 2 when k is even, the
\* northward field of the same index when k is odd
NextMessage(k) ==
    LET idx == k \div 2
    IN IF k % 2 = 0
       THEN Message(u_current_array.values[idx + 1], "ocu", idx, geometry,
                    args.temporal_resolution)
       ELSE Message(v_current_array.values[idx + 1], "ocv", idx, geometry,
                    args.temporal_resolution)

\* one write_field call of the loop: the message is built and appended to
\* grib_path; a value or key eccodes refuses raises before the file is
\* opened
WriteField ==
    /\ pc = "write_field"
    /\ \E ok \in BOOLEAN :
         IF ok
         THEN /\ grib_file' = [exists |-> TRUE,
                               msgs |-> Append(grib_file.msgs,
                                               NextMessage(written))]
              /\ written' = written + 1
              /\ pc' = IF written' = 2 * Len(u_current_array.time)
                       THEN "cleanup" ELSE "write_field"
              /\ UNCHANGED <<outcome, raised>>
         ELSE /\ Raise("encode_failed")
              /\ UNCHANGED <<grib_file, written>>
    /\ UNCHANGED <<args, remote, dir_exists, files, to_download_file,
                   current_file, downloads_list, current_forecast_list,
                   u_current_array, v_current_array, time_reduction_factor,
                   geometry, listing_calls, prompts, fetched, collated,
                   grib_removed, deleted, made_dir>>

\* main, after the write loop: unless --keep-forecasts, every listed file
\* that exists is removed
DeleteForecasts ==
    /\ pc = "cleanup"
    /\ pc' = "exit"
    /\ outcome' = "done"
    /\ IF ~args.keep_forecasts
       THEN /\ deleted' = Range(current_forecast_list) \cap files
            /\ files' = files \ Range(current_forecast_list)
       ELSE UNCHANGED <<deleted, files>>
    /\ UNCHANGED <<raised, args, remote, dir_exists, to_download_file,
                   current_file, grib_file, downloads_list,
                   current_forecast_list, u_current_array, v_current_array,
                   time_reduction_factor, geometry, written, listing_calls,
                   prompts, fetched, collated, grib_removed, made_dir>>

Next ==
    \/ MakeOutputDir
    \/ ListFiles
    \/ Confirm
    \/ Fetch
    \/ CollateFiles
    \/ ReduceResolution
    \/ RemoveGrib
    \/ WriteField
    \/ DeleteForecasts

Spec == Init /\ [][Next]_vars

\* ------------------------------------------------------------- properties
StrictlyIncreasing(s) == \A i \in 1..(Len(s) - 1) : s[i] < s[i + 1]

IsPrefix(p, q) == Len(p) <= Len(q) /\ SubSeq(q, 1, Len(p)) = p

\* the number of timestamps of the (reduced) time series
T == Len(u_current_array.time)

\* the granule a listed local file holds, rows north to south
Opened(i) == SortLatitude(Granule(GranuleOf(current_forecast_list[i])))

\* time indices of the collated array that precede file i's window
RECURSIVE Offset(_)
Offset(i) == IF i = 1 THEN 0 ELSE Offset(i - 1) + Len(Opened(i - 1).time)

\* some listed file after the first has another grid than the first
GridMismatch ==
    \E i \in 2..Len(current_forecast_list) :
        GeometryOf(Opened(i)) # GeometryOf(Opened(1))

\* the timestamps of the listed files, in list order
ListedTimes == Flat([i \in 1..Len(current_forecast_list) |-> Opened(i).time])

\* the cadence is one the specification accepts
ValidCadence(c) ==
    /\ c.unit \in Units
    /\ c.count >= 1
    /\ c.unit = "m" => c.count % NativeMinutes = 0

BadConfig ==
    \/ ~ValidCadence(args.temporal_resolution)
    \/ args.spatial_resolution_factor < 1

\* C1: a run cancelled at the prompt has fetched no granule, written no
\* output and left nothing it created on disk: neither manifest list file
\* exists and the output directory was not made by the run.
C1_CancelLeavesNothing ==
    outcome = "cancelled" =>
        /\ fetched = {}
        /\ written = 0
        /\ ~to_download_file.exists
        /\ ~current_file.exists
        /\ ~made_dir

\* C2: once the run has ended, the file at grib_path never holds only some
\* of the run's 2*T messages.
C2_AllOrNothing ==
    pc = "exit" => ~(grib_file.exists /\ written > 0 /\ written < 2 * T)

\* C3: a run whose configuration is invalid has made no listing call, asked
\* no confirmation, fetched and collated nothing and has not touched the
\* output artifact.
C3_ConfigErrorFirst ==
    BadConfig =>
        /\ listing_calls = 0
        /\ prompts = 0
        /\ fetched = {}
        /\ ~collated
        /\ ~grib_removed
        /\ written = 0

\* C4: when a listed file after the first has another grid than the first,
\* collate_files ends the run with an error and yields no stacked array.
C4_GridMismatchFatal ==
    (collated /\ GridMismatch) =>
        /\ outcome = "error"
        /\ u_current_array = EmptyArray
        /\ v_current_array = EmptyArray

\* C5: whenever collate_files has returned, the collated timestamps are
\* strictly increasing; a list with a repeated or earlier timestamp ends
\* the run with an error instead.
C5_TimesStrictlyIncreasing ==
    /\ pc = "reduce_resolution" => StrictlyIncreasing(u_current_array.time)
    /\ (collated /\ ~StrictlyIncreasing(ListedTimes)) => outcome = "error"

\* C6: whenever reduce_resolution has returned, the cadence has a whole
\* positive stride and the stride applied is n/15, n*4 or n*96 exactly.
C6_WholeStrideOrRejected ==
    pc = "grib_path" =>
        LET c == args.temporal_resolution
        IN /\ ValidCadence(c)
           /\ time_reduction_factor >= 1
           /\ c.unit = "m" => time_reduction_factor * NativeMinutes = c.count
           /\ c.unit = "h" => time_reduction_factor = c.count * StepsPerHour
           /\ c.unit = "d" => time_reduction_factor = c.count * StepsPerDay

\* C7: whenever collate_files has returned, every cell of every granule
\* sits in the collated eastward and northward fields as the raw value
\* (0 for a missing one) times 1.94384.
C7_TimesKnots ==
    pc = "reduce_resolution" =>
        \A i \in 1..Len(current_forecast_list) :
          LET ds == Opened(i)
          IN \A t \in 1..Len(ds.time) :
               \A r \in 1..Len(ds.latitude) :
                 \A c \in 1..Len(ds.longitude) :
                   LET row == IndexOf(u_current_array.latitude, ds.latitude[r])
                       col == IndexOf(u_current_array.longitude, ds.longitude[c])
                   IN /\ CellEq(u_current_array.values[Offset(i) + t][row][col],
                                TimesKnots(Fillna(ds.uo[t][r][c])))
                      /\ CellEq(v_current_array.values[Offset(i) + t][row][col],
                                TimesKnots(Fillna(ds.vo[t][r][c])))

\* C8: while the run writes, the artifact holds exactly the messages written
\* by this run (what was there before is gone); after a successful run it
\* holds 2*T messages, the (2i+1)-th the eastward and the (2i+2)-th the
\* northward field of the i-th timestamp of the reduced series, with steps
\* that never decrease.
C8_TwoMessagesPerTimestamp ==
    /\ pc \in {"write_field", "cleanup"} =>
          /\ Len(grib_file.msgs) = written
          /\ OldMessage \notin Range(grib_file.msgs)
    /\ outcome = "done" =>
          /\ grib_file.exists
          /\ Len(grib_file.msgs) = 2 * T
          /\ OldMessage \notin Range(grib_file.msgs)
          /\ \A i \in 0..(T - 1) :
               /\ grib_file.msgs[2 * i + 1].parameterNumber = ParamU
               /\ grib_file.msgs[2 * i + 1].values =
                     Flat(u_current_array.values[i + 1])
               /\ grib_file.msgs[2 * i + 1].step =
                     i * args.temporal_resolution.count
               /\ grib_file.msgs[2 * i + 2].parameterNumber = ParamV
               /\ grib_file.msgs[2 * i + 2].values =
                     Flat(v_current_array.values[i + 1])
               /\ grib_file.msgs[2 * i + 2].step =
                     i * args.temporal_resolution.count
          /\ \A j \in 1..(2 * T - 1) :
               grib_file.msgs[j].step <= grib_file.msgs[j + 1].step

C8_Witness ==
    /\ outcome = "done"
    /\ grib_removed
    /\ T >= 2
    /\ u_current_array.values # v_current_array.values

\* C9: a step removes a granule file only when every one of the 2*T
\* messages is in the artifact, and a run that failed or was cancelled has
\* removed none.
C9_DeleteAfterEncoding ==
    /\ [][(files \ files' # {}) =>
            /\ pc = "cleanup"
            /\ grib_file.exists
            /\ written = 2 * T
            /\ Len(grib_file.msgs) = 2 * T]_vars
    /\ [](outcome \in {"error", "cancelled"} => deleted = {})

C9_Witness ==
    /\ outcome = "done"
    /\ deleted # {}
    /\ deleted \cap files = {}
    /\ Len(grib_file.msgs) = 2 * T

Owner(n) ==
    CHOOSE i \in 1..Len(current_forecast_list) :
        Offset(i) < n /\ n <= Offset(i) + Len(Opened(i).time)

\* ceil(L / f) for f >= 1
CeilDiv(L, f) == (L \div f) + (IF L % f = 0 THEN 0 ELSE 1)

\* the cell file Owner(n) contributes at the labels (la, lo) of field f,
\* NaN where its grid has no such label
SourceCell(n, la, lo, f) ==
    LET ds == Opened(Owner(n))
        t == n - Offset(Owner(n))
    IN IF la \in Range(ds.latitude) /\ lo \in Range(ds.longitude)
       THEN ToKnots(Fillna(ds[f][t][IndexOf(ds.latitude, la)]
                                   [IndexOf(ds.longitude, lo)]))
       ELSE NaN

\* C11: whenever reduce_resolution has returned for a valid cadence with
\* stride f, the time axis has ceil(L / f) entries, its k-th entry (from 0)
\* is the collated timestamp at index k*f, every retained field holds the
\* collated values of that index unchanged, and the eastward and northward
\* stacks have the same time axis; reduce_resolution raises only for an
\* invalid configuration.
C11_PureStride ==
    /\ (pc = "grib_path" /\ ValidCadence(args.temporal_resolution)) =>
          LET f == TimeReductionFactor(args.temporal_resolution)
              L == Len(ListedTimes)
          IN /\ f >= 1
             /\ Len(u_current_array.time) = CeilDiv(L, f)
             /\ Len(u_current_array.values) = CeilDiv(L, f)
             /\ v_current_array.time = u_current_array.time
             /\ Len(v_current_array.values) = Len(u_current_array.values)
             /\ \A k \in 0..(Len(u_current_array.time) - 1) :
                  /\ k * f + 1 <= L
                  /\ u_current_array.time[k + 1] = ListedTimes[k * f + 1]
                  /\ \A r \in 1..Len(u_current_array.latitude) :
                       \A c \in 1..Len(u_current_array.longitude) :
                         /\ CellEq(u_current_array.values[k + 1][r][c],
                                   SourceCell(k * f + 1,
                                              u_current_array.latitude[r],
                                              u_current_array.longitude[c],
                                              "uo"))
                         /\ CellEq(v_current_array.values[k + 1][r][c],
                                   SourceCell(k * f + 1,
                                              v_current_array.latitude[r],
                                              v_current_array.longitude[c],
                                              "vo"))
    /\ raised \in {"slice_step_zero", "invalid_temporal_resolution"} =>
          BadConfig

C11_Witness ==
    /\ pc = "grib_path"
    /\ ValidCadence(args.temporal_resolution)
    /\ time_reduction_factor = 2
    /\ Len(ListedTimes) = 3
    /\ u_current_array.time = <<ListedTimes[1], ListedTimes[3]>>

====
